SPECIFICATION Spec
CONSTANTS
    Members = {m1}
    Admins = {a1}
    Supers = {s1, s2}
    Requests = {r1, r2}
    Sessions = {x1}
    Amounts = {1}
    Balance0 = 3
    MaxBalance = 3
    Nobody = Nobody
    NoRequest = NoRequest
    MaxAnomalies = 1
    Events = {"cooldown"}
    Ambient = TRUE
    Polling = TRUE
    Crashes = TRUE
    LostReplies = TRUE
INVARIANT TypeOK
INVARIANT TakenMatchesStatus
INVARIANT BookedOnce
PROPERTY AmlHoldNeedsOverride
PROPERTY DecidedIsFinal
PROPERTY ImplementsContract
SYMMETRY Symmetry
CHECK_DEADLOCK FALSE
