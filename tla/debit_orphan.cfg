SPECIFICATION CollectionsSpec
CONSTANTS
    Parts = {"mandates"}
    MaxStarts = 0
    Nobody = Nobody
    Hands = {h1, h2}
    Supers = {s1, s2}
    Savings = {m2}
    Loans = {l1}
    MaxDue = 1
    Guarantors = {g1, g2}
    LoanBalance = 4
    Wallet0 = 8
    Savings0 = 1
    LoanInstallment = 3
    Fine = 1
    Share = 1
    MaxLate = 2
    Admins = {a1}
    Members = {}
    Batches = {1, 2}
    Saving = 1
    Installment = 1
    Balance0 = 1
    Amounts = {1}
INVARIANT AskedHasRow
SYMMETRY Symmetry
CHECK_DEADLOCK FALSE
