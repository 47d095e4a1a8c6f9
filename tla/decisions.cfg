SPECIFICATION OfficeSpec
CONSTANTS
    Parts = {"payments", "refunds", "credits", "claims", "dividends", "filings"}
    Nobody = Nobody
    NoRecord = NoRecord
    NoPayment = NoPayment
    Supers = {s1, s2, s3}
    Officers = {s1, s2}
    Payments = {x1, x2}
    Ceiling = 1
    Crashes = TRUE
    Amounts = {1}
    Rows = {x1, x2}
    Hands = {h1, h2}
    Admins = {a1}
    Requests = {r1}
    Clerks = {k1, k2}
    Desks = {d1, d2}
    Members = {}
    Backers = {}
    Balance0 = 1
    Debt0 = 2
    Fund0 = 1
    Votes = {v1}
    Weight <- TwoToOne
    Banked = {1}
    Profit = 100
    Statutory = 27
    Rates = {10, 20}
    Jump = 5
    RequiredYes = 1
    MaxPreviews = 2
    MaxTransfers = 2
    Packs = {q1}
    Processes = {j1, j2}
    Dues = {2}
    DefaultDue = 2
    MaxDay = 2
INVARIANT TypesOK
INVARIANT PaidMatchesBooks
INVARIANT CreditedOnceByTwo
INVARIANT SavingsLeaveOnce
INVARIANT PoolIsShared
INVARIANT FilingsStand
INVARIANT SlotsMatchStatus
INVARIANT ThreeApprovers
INVARIANT BookedOnce
PROPERTY DecidedIsFinal
SYMMETRY Symmetry
CHECK_DEADLOCK FALSE
