SPECIFICATION FairSpec
CONSTANTS
    Parts = {"repayments"}
    MaxStarts = 0
    Nobody = Nobody
    Hands = {h1, h2}
    Supers = {s1, s2}
    Savings = {}
    Loans = {l1}
    MaxDue = 1
    Guarantors = {g1}
    LoanBalance = 2
    Wallet0 = 4
    Savings0 = 2
    LoanInstallment = 2
    Fine = 1
    Share = 1
    MaxLate = 2
    Admins = {a1}
    Members = {}
    Batches = {1, 2}
    Saving = 1
    Installment = 1
    Balance0 = 1
    Amounts = {1}
PROPERTY DueIsDeducted
CHECK_DEADLOCK FALSE
