\* The completing job against a cancellation of the same booking.
SPECIFICATION Spec
CONSTANTS
    Bookings = {b1}
    Babysitters = {sitter}
    Parents = {parent}
    Requests = {r1}
    None = None
    Overlap = TRUE
    MaxCrashes = 0
SYMMETRY Interchangeable
PROPERTY CancelledIsNotCompleted
CHECK_DEADLOCK FALSE
