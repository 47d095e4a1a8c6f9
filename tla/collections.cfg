SPECIFICATION CollectionsSpec
CONSTANTS
    Parts = {"mandates", "repayments", "deductions", "scheduling"}
    MaxStarts = 3
    Nobody = Nobody
    Hands = {h1, h2}
    Supers = {s1, s2}
    Savings = {}
    Loans = {l1}
    MaxDue = 1
    Guarantors = {g1}
    LoanBalance = 2
    Wallet0 = 4
    Savings0 = 2
    LoanInstallment = 2
    Fine = 1
    Share = 1
    MaxLate = 2
    Admins = {a1}
    Members = {m1}
    Batches = {1, 2}
    Saving = 1
    Installment = 1
    Balance0 = 1
    Amounts = {1}
INVARIANT TypesOK
INVARIANT CreditedOncePerCharge
INVARIANT BatchCreditedOnce
INVARIANT NoticesGoOutOnce
PROPERTY GuarantorChargedOnce
SYMMETRY Symmetry
CHECK_DEADLOCK FALSE
