\* The cancellation count against the expiry job, nothing overlapping.
SPECIFICATION Spec
CONSTANTS
    Bookings = {b1}
    Babysitters = {sitter}
    Parents = {parent}
    Requests = {r1}
    None = None
    Overlap = FALSE
    MaxCrashes = 0
SYMMETRY Interchangeable
INVARIANT CountedWasConfirmed
CHECK_DEADLOCK FALSE
