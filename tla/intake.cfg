SPECIFICATION Spec
CONSTANTS
    Texts = {m1}
    Documents = {d1}
    Tasks = {k1, k2}
    NoMsg = NoMsg
    NoTxn = NoTxn
    Txns = {t1, t2}
    Creditable = {t1}
    Hooks = {h1, h2}
    MaxFaults = 2
INVARIANT TypesOK
INVARIANT HandledOnce
INVARIANT ClaimIsExclusive
INVARIANT RunnerHoldsLease
INVARIANT CreditedOnce
INVARIANT AckedIsSettled
PROPERTY TextIsAnswered
PROPERTY TransfersSettle
CHECK_DEADLOCK FALSE
