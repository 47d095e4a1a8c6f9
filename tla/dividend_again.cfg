SPECIFICATION OfficeSpec
CONSTANTS
    Parts = {"dividends"}
    Nobody = Nobody
    NoRecord = NoRecord
    NoPayment = NoPayment
    Supers = {s1, s2, s3}
    Officers = {s1, s2}
    Payments = {x1, x2}
    Ceiling = 1
    Crashes = TRUE
    Amounts = {1}
    Rows = {x1, x2}
    Hands = {h1, h2}
    Admins = {a1}
    Requests = {r1}
    Clerks = {k1}
    Desks = {d1}
    Members = {}
    Backers = {}
    Balance0 = 1
    Debt0 = 2
    Fund0 = 1
    Votes = {v1}
    Weight <- TwoToOne
    Banked = {1}
    Profit = 100
    Statutory = 27
    Rates = {10, 20}
    Jump = 5
    RequiredYes = 1
    MaxPreviews = 2
    MaxTransfers = 2
    Packs = {}
    Processes = {}
    Dues = {1}
    DefaultDue = 1
    MaxDay = 1
CHECK_DEADLOCK FALSE
INVARIANT OneRunPerPreview
