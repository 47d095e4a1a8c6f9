SPECIFICATION MCSpec
CONSTANTS
    Admins = {o1, o2}
    Supers = {s1, s2, s3}
    Members = {m1}
    Nobody = Nobody
    Loans = {l1}
    NoLoan = NoLoan
    Swaps = {x1}
    NoSwap = NoSwap
    Hands = {k1, k2}
    MaxActive = 1
    Officers = {o1, o2}
    Appointable = {s1, s2, s3}
    Size = 3
INVARIANT TypeOK
INVARIANT OneRoleEach
INVARIANT PaidByMandate
INVARIANT KeepsGuarantors
INVARIANT BookedOnce
SYMMETRY Symmetry
CHECK_DEADLOCK FALSE
