SPECIFICATION Spec
CONSTANTS
    Texts = {m1}
    Documents = {}
    Tasks = {k1}
    NoMsg = NoMsg
    NoTxn = NoTxn
    Txns = {t1}
    Creditable = {t1}
    Hooks = {h1}
    MaxFaults = 1
INVARIANT AckedIsCredited
CHECK_DEADLOCK FALSE
