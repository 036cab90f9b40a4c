\* An admin and a babysitter; two calls at a time, four in all.
SPECIFICATION Spec
CONSTANTS
    Users = {a1, b1}
    Admins = {a1}
    Managers = {}
    Members = {b1}
    None = None
    Calls = {k1, k2}
    MaxCodes = 2
    MaxSessions = 3
    MaxCalls = 4
SYMMETRY Interchangeable
INVARIANT OneSessionPerMember
INVARIANT TokenSpentOnce
INVARIANT CodeAcceptedOnce
PROPERTY NoSessionAfterDeletion
CHECK_DEADLOCK FALSE
