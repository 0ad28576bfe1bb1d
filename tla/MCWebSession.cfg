CONSTANTS
    Accounts = {a1, a2}
    Nobody = Nobody
    NoSession = NoSession
    NoTab = NoTab
    Tabs = {t1, t2}
    AccessTtl = 1
    RefreshTtl = 2
    MaxStarts = 3
    MaxFaults = 1
    MaxTime = 1
SPECIFICATION SessionSpec
INVARIANTS SessionInv
PROPERTIES CallsEnd
CHECK_DEADLOCK FALSE
