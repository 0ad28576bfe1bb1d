CONSTANTS
    Pages = {p1, p2}
    Files = {f1, f2, f3}
    Supported = {f1, f3}
    Shown = {f1, f2}
    None = None
    MaxPublishes = 2
    MaxPicks = 2
    MaxFaults = 2
SPECIFICATION UploadsSpec
INVARIANTS UploadsInv 
PROPERTIES PublishesEnd
CHECK_DEADLOCK FALSE
