SPECIFICATION Spec
CONSTANTS
    Members = {s1, a1}
    Admins = {a1}
    Supers = {s1, s2}
    Requests = {r1}
    Sessions = {x1}
    Amounts = {1}
    Balance0 = 3
    MaxBalance = 3
    Nobody = Nobody
    NoRequest = NoRequest
    MaxAnomalies = 1
    Events = {"override", "credit", "debit"}
    Ambient = TRUE
    Polling = TRUE
    Crashes = TRUE
    LostReplies = TRUE
INVARIANT DualControl
INVARIANT Solvent
CHECK_DEADLOCK FALSE
