SPECIFICATION FairSpec
CONSTANTS
    Device = {d1, d2}
    Sizes = {2}
    Present = 5
    MaxChanges = 2
INVARIANTS TypeOK MissesNoMore QuietRoomIsComplete
PROPERTY WalksEnd
CHECK_DEADLOCK FALSE
