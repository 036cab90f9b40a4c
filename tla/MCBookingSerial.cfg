\* Two bookings of one family, operations on one booking do not overlap.
SPECIFICATION Spec
CONSTANTS
    Bookings = {b1, b2}
    Babysitters = {sitter}
    Parents = {parent}
    Requests = {r1, r2}
    None = None
    Overlap = FALSE
    MaxCrashes = 1
SYMMETRY Interchangeable
INVARIANT ColumnsAgree
INVARIANT CancelNoticeComesTrue
PROPERTY WorkflowSpec
CHECK_DEADLOCK FALSE
