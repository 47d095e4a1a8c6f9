SPECIFICATION Spec
CONSTANTS
    NoOne = NoOne
    NoRow = NoRow
    Members = {m1, m2}
    Others = {n1}
    Buyers = {y1}
    Voters = {v1, v2}
    Suspended = {v2}
    Candidates = {o1, o2}
    Yes = o1
    No = o2
    Unit = {v1}
    UnitCandidates = {o1, o2}
    Percent = 60
    Rows = {x1, x2}
    One = {z1}
    Hands = {h1, h2}
    Kobo = 2
    Length = 2
    Rate = 50
    Price = 3
    Installment = 2
    Premium = 1
INVARIANT RunsOnWhatWasAsked
INVARIANT BooksMatch
INVARIANT BallotsDecide
SYMMETRY Symmetry
CHECK_DEADLOCK FALSE
