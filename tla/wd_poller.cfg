SPECIFICATION FairSpec
CONSTANTS
    Members = {m1}
    Admins = {a1}
    Supers = {s1}
    Requests = {r1}
    Sessions = {x1}
    Amounts = {1}
    Balance0 = 3
    MaxBalance = 3
    Nobody = Nobody
    NoRequest = NoRequest
    MaxAnomalies = 1
    Events = {"block"}
    Ambient = FALSE
    Polling = TRUE
    Crashes = TRUE
    LostReplies = FALSE

PROPERTY StuckRowsSettle
CHECK_DEADLOCK FALSE
