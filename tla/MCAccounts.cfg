\* Two emails, three rows, two roles that are numbered apart; two calls at a
\* time, three in all.
SPECIFICATION Spec
CONSTANTS
    Users = {e1, e2}
    UserIds = {u1, u2, u3}
    Roles = {"baby_sitter", "manager"}
    None = None
    Calls = {k1, k2}
    MaxCodes = 2
    MaxCalls = 3
SYMMETRY Interchangeable
INVARIANT LoneSignupGetsItsCode
INVARIANT AccountFollowsOrders
INVARIANT SignupCompletesOnce
INVARIANT SocialUserCanReturn
CHECK_DEADLOCK FALSE
