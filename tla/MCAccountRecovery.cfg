CONSTANTS
    Owners = {u1, u2}
    Handles = {h1, h2, h3}
    Gone = Gone
    Leaving = {u2}
    Pages = {p1}
    MaxTries = 2
    MaxSends = 2
    Ttl = 0
    MaxCalls = 4
    MaxCodes = 2
    MaxFaults = 1
SPECIFICATION RecoverySpec
INVARIANTS RecoveryInv
PROPERTIES OnlyGoodCodesWork CallsAndMailsEnd
CHECK_DEADLOCK FALSE
